---- MODULE Spec2Model ----
(***************************************************************************)
(* Model of the postgrest-go Client (src/client.go): construction with     *)
(* NewClient / NewClientFast, the header setters, Ping and Rpc on the two  *)
(* HTTP engines (net/http through transport.RoundTrip, fasthttp inline),   *)
(* and the last-error slot ClientError.  One Client is shared by the       *)
(* goroutines in `active`; a call is split where the code blocks on the    *)
(* engine and where it writes ClientError, so interleavings are visible.   *)
(***************************************************************************)
EXTENDS Naturals, Sequences, FiniteSets, TLC

\* ---------------------------------------------------------------- inputs

\* Goroutines that may share the Client.
Callers == {"g1", "g2"}

\* Argument lists of the constructors: rawURL, schema, optional headers (a
\* set of key/value pairs).  "://bad" is a rawURL url.Parse rejects.
Constructions ==
  { [rawURL |-> "http://localhost:3000", schema |-> "", headers |-> {}],
    [rawURL |-> "http://host/v1/", schema |-> "s1",
     headers |-> {<<"apikey", "K1">>, <<"prefer", "return=representation">>}],
    [rawURL |-> "not a url", schema |-> "", headers |-> {}],
    [rawURL |-> "://bad", schema |-> "", headers |-> {}] }

\* The construction of test/rpc/main.go.
DefaultConstruction ==
  [rawURL |-> "http://localhost:3000", schema |-> "", headers |-> {}]

\* schema arguments of ChangeSchema.
Schemas == {"s1", "s2"}

\* apiKey / authToken arguments.
Keys == {"K1", "K2"}

\* function names and count arguments of Rpc.
RpcNames == {"add_them"}
Counts == {"", "exact", "planned", "estimated", "bogus"}

\* rpcBody arguments: nil, a value json.Marshal encodes, one it rejects.
RpcBodies == {"nil", "ok", "unmarshalable"}

\* Largest n handed to SetFastHTTPMaxConns (the smallest is 0).
MaxN == 1

\* Default pool size of the fasthttp client.
DefaultMaxConns == 30

\* Header names, in the canonical form http.Header stores them under.
HeaderNames == {"Accept", "Content-Type", "Accept-Profile", "Content-Profile",
                "X-Client-Info", "Apikey", "Authorization", "Prefer"}

\* textproto.CanonicalMIMEHeaderKey on the keys the program uses.
CanonicalMIMEHeaderKey(key) ==
  CASE key = "apikey" -> "Apikey"
    [] key = "prefer" -> "Prefer"
    [] OTHER -> key

\* Answers of the server: status code, reason phrase, body.
Responses ==
  { [code |-> 200, reason |-> "OK", body |-> "12"],
    [code |-> 200, reason |-> "", body |-> "12"],
    [code |-> 500, reason |-> "Internal Server Error", body |-> "{message: error}"] }

\* ---------------------------------------------------------------- URLs

\* A URL: scheme, host and a path of segments; abs = leading "/", dir =
\* trailing "/".  The empty path is segs = <<>>, abs = FALSE.
EmptyPath == [abs |-> FALSE, segs |-> <<>>, dir |-> FALSE]
NoURL == [scheme |-> "", host |-> "", path |-> EmptyPath]

\* url.Parse on the rawURL arguments.
ParseURL(rawURL) ==
  CASE rawURL = "http://localhost:3000" ->
         [err |-> "nil",
          url |-> [scheme |-> "http", host |-> "localhost:3000", path |-> EmptyPath]]
    [] rawURL = "http://host/v1/" ->
         [err |-> "nil",
          url |-> [scheme |-> "http", host |-> "host",
                   path |-> [abs |-> TRUE, segs |-> <<"v1">>, dir |-> TRUE]]]
    [] rawURL = "not a url" ->
         [err |-> "nil",
          url |-> [scheme |-> "", host |-> "",
                   path |-> [abs |-> FALSE, segs |-> <<"not a url">>, dir |-> FALSE]]]
    [] OTHER -> [err |-> "parse error", url |-> NoURL]

\* path.Join(base, elems...): the non-empty elements joined by "/" and
\* cleaned (no trailing slash); "" when every element is empty.
PathJoin(base, elems) ==
  IF base = EmptyPath /\ elems = <<>> THEN EmptyPath
  ELSE [abs |-> base.abs, segs |-> base.segs \o elems, dir |-> FALSE]

\* net/url resolvePath(base, ref) for paths without dot segments.
ResolvePath(base, ref) ==
  LET full == IF ref = EmptyPath THEN base
              ELSE IF ~ref.abs
                   THEN [abs |-> base.abs,
                         segs |-> (IF base.dir \/ base.segs = <<>>
                                   THEN base.segs
                                   ELSE SubSeq(base.segs, 1, Len(base.segs) - 1))
                                  \o ref.segs,
                         dir |-> ref.dir]
                   ELSE ref
  IN IF full = EmptyPath THEN EmptyPath ELSE [full EXCEPT !.abs = TRUE]

\* (*URL).ResolveReference(ref).
ResolveReference(u, ref) ==
  IF ref.scheme # "" \/ ref.host # ""
  THEN [ref EXCEPT !.path = ResolvePath(ref.path, EmptyPath)]
  ELSE [scheme |-> u.scheme, host |-> u.host,
        path |-> ResolvePath(u.path, ref.path)]

\* ---------------------------------------------------------------- headers

EmptyHeader == [n \in HeaderNames |-> <<>>]

\* Header.Set written as an append (what Header.Add does).
HeaderSetAppends(h, key, value) ==
  [h EXCEPT ![CanonicalMIMEHeaderKey(key)] = Append(@, value)]

\* http.Header.Set: replaces the values stored under the canonical key.
HeaderSet(h, key, value) ==
  [h EXCEPT ![CanonicalMIMEHeaderKey(key)] = <<value>>]

\* http.Header.Add: appends to the values stored under the canonical key.
HeaderAdd(h, key, value) ==
  [h EXCEPT ![CanonicalMIMEHeaderKey(key)] = Append(@, value)]

\* The `for key, value := range headers` loops of the constructors.
RECURSIVE SetAll(_, _)
SetAll(h, pairs) ==
  IF pairs = {} THEN h
  ELSE LET p == CHOOSE p \in pairs : TRUE
       IN SetAll(HeaderSet(h, p[1], p[2]), pairs \ {p})


\* fasthttp RequestHeader.Add: appends, except for the headers fasthttp keeps
\* in a single slot (Content-Type among the names used here), which it sets.
FastHeaderAdd(h, key, value) ==
  IF CanonicalMIMEHeaderKey(key) = "Content-Type"
  THEN [h EXCEPT !["Content-Type"] = <<value>>]
  ELSE [h EXCEPT ![CanonicalMIMEHeaderKey(key)] = Append(@, value)]

\* req.Header.Add of the engine in use.
EngineAdd(h, name, value, fast) ==
  IF fast THEN FastHeaderAdd(h, name, value) ELSE HeaderAdd(h, name, value)

\* The inner loop `for _, val := range values { req.Header.Add(headerName, val) }`.
RECURSIVE AddValues(_, _, _, _)
AddValues(h, name, values, fast) ==
  IF values = <<>> THEN h
  ELSE AddValues(EngineAdd(h, name, Head(values), fast), name, Tail(values), fast)

\* The outer loop `for headerName, values := range header`.
RECURSIVE ApplyDefaults(_, _, _, _)
ApplyDefaults(h, defaults, names, fast) ==
  IF names = {} THEN h
  ELSE LET n == CHOOSE n \in names : TRUE
       IN ApplyDefaults(AddValues(h, n, defaults[n], fast), defaults,
                        names \ {n}, fast)

\* ---------------------------------------------------------------- Client

version == "v0.1.1"

NilTransport == [nil |-> TRUE, header |-> EmptyHeader, baseURL |-> NoURL]
NilFastHTTPClient == [nil |-> TRUE, MaxConnsPerHost |-> 0]

\* The required headers both constructors set, then the optional ones.
InitialHeader(schema, headers) ==
  LET s  == IF schema = "" THEN "public" ELSE schema
      h1 == HeaderSet(EmptyHeader, "Accept", "application/json")
      h2 == HeaderSet(h1, "Content-Type", "application/json")
      h3 == HeaderSet(h2, "Accept-Profile", s)
      h4 == HeaderSet(h3, "Content-Profile", s)
      h5 == HeaderSet(h4, "X-Client-Info", "postgrest-go/" \o version)
  IN SetAll(h5, headers)

\* NewClient: the Client value it returns.
NewClient(rawURL, schema, headers) ==
  LET p == ParseURL(rawURL)
  IN IF p.err # "nil"
     THEN [ClientError |-> p.err, Transport |-> NilTransport,
           useFastHTTP |-> FALSE, fastHTTPClient |-> NilFastHTTPClient]
     ELSE [ClientError |-> "nil",
           Transport |-> [nil |-> FALSE, header |-> InitialHeader(schema, headers),
                          baseURL |-> p.url],
           useFastHTTP |-> FALSE, fastHTTPClient |-> NilFastHTTPClient]

\* NewClientFast: the Client value it returns.
NewClientFast(rawURL, schema, headers) ==
  LET p == ParseURL(rawURL)
  IN IF p.err # "nil"
     THEN [ClientError |-> p.err, Transport |-> NilTransport,
           useFastHTTP |-> FALSE, fastHTTPClient |-> NilFastHTTPClient]
     ELSE [ClientError |-> "nil",
           Transport |-> [nil |-> FALSE, header |-> InitialHeader(schema, headers),
                          baseURL |-> p.url],
           useFastHTTP |-> TRUE,
           fastHTTPClient |-> [nil |-> FALSE, MaxConnsPerHost |-> DefaultMaxConns]]

\* ---------------------------------------------------------------- requests

NoRequest == [method |-> "", url |-> NoURL, header |-> EmptyHeader, body |-> ""]

\* json.Marshal of the rpcBody arguments.
Marshal(rpcBody) ==
  CASE rpcBody = "ok" -> [err |-> "nil", bytes |-> "{a:9,b:3}"]
    [] rpcBody = "unmarshalable" -> [err |-> "marshal error", bytes |-> ""]
    [] OTHER -> [err |-> "nil", bytes |-> ""]

\* The count test without its list of accepted values.
CountGivenAny(count) ==
  count # ""

\* The test `count != "" && (count == exact || planned || estimated)`.
CountGiven(count) ==
  count # "" /\ (count = "exact" \/ count = "planned" \/ count = "estimated")

\* Ping / Rpc: `full`, the reference built with path.Join and resolved.
FullURL(t, elems) ==
  ResolveReference(t.baseURL,
                   [scheme |-> "", host |-> "", path |-> PathJoin(t.baseURL.path, elems)])

\* http.NewRequest(method, full.String(), body): no headers yet.
NewRequest(method, full, body) ==
  [method |-> method, url |-> full, header |-> EmptyHeader, body |-> body]

\* RoundTrip that resolves the URL but stamps no default header.
RoundTripNoHeaders(t, r) ==
  [r EXCEPT !.url = ResolveReference(t.baseURL, r.url)]

\* transport.RoundTrip up to the delegation to the parent transport.
RoundTrip(t, r) ==
  [r EXCEPT !.header = ApplyDefaults(r.header, t.header, HeaderNames, FALSE),
            !.url = ResolveReference(t.baseURL, r.url)]

\* The request net/http hands to the network for Ping.
PingRequestStd(t) ==
  RoundTrip(t, NewRequest("GET", FullURL(t, <<>>), ""))

\* The request Ping builds inline for fasthttp.
PingRequestFast(t) ==
  [method |-> "GET", url |-> FullURL(t, <<>>),
   header |-> ApplyDefaults(EmptyHeader, t.header, HeaderNames, TRUE),
   body |-> ""]

\* The request net/http hands to the network for Rpc.
RpcRequestStd(t, name, count, bytes) ==
  LET r0 == NewRequest("POST", FullURL(t, <<"rpc", name>>), bytes)
      r1 == IF CountGiven(count)
            THEN [r0 EXCEPT !.header = HeaderAdd(@, "Prefer", "count=" \o count)]
            ELSE r0
  IN RoundTrip(t, r1)

\* The request Rpc builds inline for fasthttp.
RpcRequestFast(t, name, count, bytes) ==
  LET h0 == ApplyDefaults(EmptyHeader, t.header, HeaderNames, TRUE)
      h1 == IF CountGiven(count)
            THEN FastHeaderAdd(h0, "Prefer", "count=" \o count)
            ELSE h0
  IN [method |-> "POST", url |-> FullURL(t, <<"rpc", name>>),
      header |-> h1, body |-> bytes]

\* ---------------------------------------------------------------- results

\* resp.Status as net/http reports it: the status line after the protocol.
Status(resp) ==
  IF resp.reason = "" THEN ToString(resp.code)
  ELSE ToString(resp.code) \o " " \o resp.reason

\* Ping on fasthttp after DoDeadline returned a response.
PingFastResult(resp) ==
  IF resp.code # 200 THEN [err |-> "ping failed", result |-> "false"]
  ELSE [err |-> "nil", result |-> "true"]

\* Ping on net/http after session.Do returned a response.
PingStdResult(resp) ==
  IF Status(resp) # "200 OK" THEN [err |-> "ping failed", result |-> "false"]
  ELSE [err |-> "nil", result |-> "true"]

\* Rpc on fasthttp after Do returned a response.
RpcFastResult(resp) ==
  [err |-> "nil", result |-> resp.body]

\* The net/http tail of Rpc with the ReadAll error dropped.
RpcStdResultReadIgnored(resp, readFails, closeFails) ==
  IF closeFails THEN [err |-> "close error", result |-> ""]
  ELSE [err |-> "nil", result |-> resp.body]

\* Rpc on net/http after session.Do returned a response: ReadAll, Close.
RpcStdResult(resp, readFails, closeFails) ==
  IF readFails THEN [err |-> "read error", result |-> ""]
  ELSE IF closeFails THEN [err |-> "close error", result |-> ""]
  ELSE [err |-> "nil", result |-> resp.body]

\* The store to ClientError done on the success paths too.
StoreErrorAlways(old, err) ==
  err

\* The assignments `c.ClientError = err`, all under `if err != nil`.
StoreError(old, err) ==
  IF err # "nil" THEN err ELSE old


\* ---------------------------------------------------------------- state

VARIABLES
  ClientError,     \* Client.ClientError: "nil" or the error last stored
  Transport,       \* Client.Transport: nil, or the header set and base URL
  useFastHTTP,     \* Client.useFastHTTP
  fastHTTPClient,  \* Client.fastHTTPClient: nil, or its MaxConnsPerHost
  panicked,        \* the process died on a nil dereference
  active,          \* the goroutines that use the Client
  pc,              \* where each goroutine is in its current call
  call,            \* the call each goroutine is in
  req,             \* the request a goroutine waits on, as the engine got it
  out,             \* what the goroutine's call produced: error and result
  lastSet          \* per header, the value the latest setter call gave it

vars == <<ClientError, Transport, useFastHTTP, fastHTTPClient, panicked,
          active, pc, call, req, out, lastSet>>

client == <<ClientError, Transport, useFastHTTP, fastHTTPClient>>

\* call: the operation, Rpc's count while the request is out, whether
\* ClientError was set when the call began, whether a request was sent.
\* out: the error the call stores, its return value, the status code of the
\* response if one came, and the step the environment made fail.
NoCall == [op |-> "none", count |-> "", errBefore |-> FALSE, sent |-> FALSE]
NoOut == [err |-> "nil", result |-> "", code |-> 0, failed |-> "none"]

SetterHeaders == {"Apikey", "Authorization", "Accept-Profile", "Content-Profile"}

Init ==
  \E a \in Constructions, fast \in BOOLEAN, act \in {{"g1"}, Callers} :
    LET c == IF fast THEN NewClientFast(a.rawURL, a.schema, a.headers)
             ELSE NewClient(a.rawURL, a.schema, a.headers)
    IN /\ act = Callers => a = DefaultConstruction
       /\ ClientError = c.ClientError
       /\ Transport = c.Transport
       /\ useFastHTTP = c.useFastHTTP
       /\ fastHTTPClient = c.fastHTTPClient
       /\ panicked = FALSE
       /\ active = act
       /\ pc = [g \in Callers |-> "idle"]
       /\ call = [g \in Callers |-> NoCall]
       /\ req = [g \in Callers |-> NoRequest]
       /\ out = [g \in Callers |-> NoOut]
       /\ lastSet = [n \in SetterHeaders |-> "unset"]

CanCall(g) == g \in active /\ ~panicked /\ pc[g] = "idle"

\* Configuration and factory calls are made by a goroutine that has the
\* Client to itself; goroutines that share it only issue Ping and Rpc.
CanConfigure(g) == CanCall(g) /\ active = {g}

Entered(op, count) ==
  [op |-> op, count |-> count, errBefore |-> ClientError # "nil", sent |-> FALSE]

\* A nil-pointer dereference of c.Transport: the runtime panics.
Panic(g, op) ==
  /\ panicked' = TRUE
  /\ pc' = [pc EXCEPT ![g] = "panic"]
  /\ call' = [call EXCEPT ![g] = Entered(op, "")]
  /\ UNCHANGED <<client, active, req, out, lastSet>>

\* The call has its outcome; what is left is the store to ClientError.
Outcome(g, c, r, code, failed) ==
  /\ pc' = [pc EXCEPT ![g] = "fin"]
  /\ call' = [call EXCEPT ![g] = [c EXCEPT !.count = ""]]
  /\ req' = [req EXCEPT ![g] = NoRequest]
  /\ out' = [out EXCEPT ![g] = [err |-> r.err, result |-> r.result,
                                code |-> code, failed |-> failed]]
  /\ UNCHANGED <<client, panicked, active, lastSet>>

\* The request is with the engine; the goroutine blocks.
Dispatch(g, c, r) ==
  /\ pc' = [pc EXCEPT ![g] = "wait"]
  /\ call' = [call EXCEPT ![g] = [c EXCEPT !.sent = TRUE]]
  /\ req' = [req EXCEPT ![g] = r]
  /\ UNCHANGED <<client, panicked, active, out, lastSet>>

\* A setter or factory call ran to its return statement.
Returned(g, op, result) ==
  /\ pc' = [pc EXCEPT ![g] = "ret"]
  /\ call' = [call EXCEPT ![g] = Entered(op, "")]
  /\ out' = [out EXCEPT ![g] = [err |-> "nil", result |-> result,
                                code |-> 0, failed |-> "none"]]

\* ---------------------------------------------------------------- operations

\* Ping, up to the point where it blocks on the engine.
Ping(g) ==
  /\ CanCall(g)
  /\ IF Transport.nil THEN Panic(g, "Ping")
     ELSE IF useFastHTTP
     THEN Dispatch(g, Entered("Ping", ""), PingRequestFast(Transport))
     ELSE \E newRequestFails \in BOOLEAN :
            IF newRequestFails
            THEN Outcome(g, Entered("Ping", ""),
                         [err |-> "request error", result |-> "false"], 0, "request")
            ELSE Dispatch(g, Entered("Ping", ""), PingRequestStd(Transport))

\* Rpc, up to the point where it blocks on the engine.
Rpc(g) ==
  /\ CanCall(g)
  /\ \E name \in RpcNames, count \in Counts, rpcBody \in RpcBodies :
       LET m == Marshal(rpcBody)
       IN IF rpcBody # "nil" /\ m.err # "nil"
          THEN Outcome(g, Entered("Rpc", count), [err |-> m.err, result |-> ""],
                       0, "marshal")
          ELSE IF Transport.nil THEN Panic(g, "Rpc")
          ELSE IF useFastHTTP
          THEN Dispatch(g, Entered("Rpc", count),
                        RpcRequestFast(Transport, name, count, m.bytes))
          ELSE \E newRequestFails \in BOOLEAN :
                 IF newRequestFails
                 THEN Outcome(g, Entered("Rpc", count),
                              [err |-> "request error", result |-> ""], 0, "request")
                 ELSE Dispatch(g, Entered("Rpc", count),
                               RpcRequestStd(Transport, name, count, m.bytes))

\* The engine returns a response to the blocked call.
EngineRespond(g) ==
  /\ ~panicked /\ pc[g] = "wait"
  /\ req[g].url.host # ""
  /\ \E resp \in Responses, readFails \in BOOLEAN, closeFails \in BOOLEAN :
       LET streamed == call[g].op = "Rpc" /\ ~useFastHTTP
           r == IF call[g].op = "Ping"
                THEN IF useFastHTTP THEN PingFastResult(resp) ELSE PingStdResult(resp)
                ELSE IF useFastHTTP THEN RpcFastResult(resp)
                     ELSE RpcStdResult(resp, readFails, closeFails)
           failed == IF streamed /\ readFails THEN "read"
                     ELSE IF streamed /\ closeFails THEN "close"
                     ELSE "none"
       IN Outcome(g, call[g], r, resp.code, failed)

\* The engine returns an error (dial, connection, protocol) to the blocked call.
EngineError(g) ==
  /\ ~panicked /\ pc[g] = "wait"
  /\ Outcome(g, call[g],
             [err |-> "transport error",
              result |-> IF call[g].op = "Ping" THEN "false" ELSE ""],
             0, "transport")

\* DoDeadline gives up: only Ping on fasthttp passes a deadline.
EngineDeadline(g) ==
  /\ ~panicked /\ pc[g] = "wait"
  /\ call[g].op = "Ping" /\ useFastHTTP
  /\ Outcome(g, call[g], [err |-> "timeout", result |-> "false"], 0, "deadline")

\* The goroutines whose store to ClientError is pending together with g's.
Racing(g) ==
  {h \in Callers \ {g} : pc[h] = "fin" /\ out[h].err # "nil"}

\* The store `c.ClientError = err` (none on the success paths), then return.
\* Two unsynchronised stores leave either value.
StoreClientError(g) ==
  /\ ~panicked /\ pc[g] = "fin"
  /\ \E v \in {out[g].err} \cup
              (IF out[g].err # "nil" THEN {out[h].err : h \in Racing(g)} ELSE {}) :
       ClientError' = StoreError(ClientError, v)
  /\ pc' = [pc EXCEPT ![g] = "ret"]
  /\ UNCHANGED <<Transport, useFastHTTP, fastHTTPClient, panicked, active,
                 call, req, out, lastSet>>

\* The caller has looked at the result and at ClientError.
Return(g) ==
  /\ ~panicked /\ pc[g] = "ret"
  /\ pc' = [pc EXCEPT ![g] = "idle"]
  /\ call' = [call EXCEPT ![g] = NoCall]
  /\ out' = [out EXCEPT ![g] = NoOut]
  /\ UNCHANGED <<client, panicked, active, req, lastSet>>

SetFastHTTPMaxConns(g) ==
  /\ CanConfigure(g)
  /\ \E n \in 0..MaxN :
       LET m == IF n <= 0 THEN DefaultMaxConns ELSE n
       IN fastHTTPClient' = [nil |-> FALSE, MaxConnsPerHost |-> m]
  /\ Returned(g, "SetFastHTTPMaxConns", "client")
  /\ UNCHANGED <<ClientError, Transport, useFastHTTP, panicked, active, req, lastSet>>

SetApiKey(g) ==
  /\ CanConfigure(g)
  /\ IF Transport.nil THEN Panic(g, "SetApiKey")
     ELSE \E apiKey \in Keys :
            /\ Transport' = [Transport EXCEPT
                              !.header = HeaderSet(@, "apikey", apiKey)]
            /\ lastSet' = [lastSet EXCEPT !["Apikey"] = apiKey]
            /\ Returned(g, "SetApiKey", "client")
            /\ UNCHANGED <<ClientError, useFastHTTP, fastHTTPClient, panicked,
                           active, req>>

SetAuthToken(g) ==
  /\ CanConfigure(g)
  /\ IF Transport.nil THEN Panic(g, "SetAuthToken")
     ELSE \E authToken \in Keys :
            /\ Transport' = [Transport EXCEPT
                              !.header = HeaderSet(@, "Authorization",
                                                   "Bearer " \o authToken)]
            /\ lastSet' = [lastSet EXCEPT !["Authorization"] = authToken]
            /\ Returned(g, "SetAuthToken", "client")
            /\ UNCHANGED <<ClientError, useFastHTTP, fastHTTPClient, panicked,
                           active, req>>

ChangeSchema(g) ==
  /\ CanConfigure(g)
  /\ IF Transport.nil THEN Panic(g, "ChangeSchema")
     ELSE \E schema \in Schemas :
            /\ Transport' = [Transport EXCEPT
                              !.header = HeaderSet(HeaderSet(@, "Accept-Profile", schema),
                                                   "Content-Profile", schema)]
            /\ lastSet' = [lastSet EXCEPT !["Accept-Profile"] = schema,
                                          !["Content-Profile"] = schema]
            /\ Returned(g, "ChangeSchema", "client")
            /\ UNCHANGED <<ClientError, useFastHTTP, fastHTTPClient, panicked,
                           active, req>>

From(g) ==
  /\ CanConfigure(g)
  /\ Returned(g, "From", "QueryBuilder")
  /\ UNCHANGED <<client, panicked, active, req, lastSet>>

Next ==
  \E g \in Callers :
    \/ Ping(g)
    \/ Rpc(g)
    \/ EngineRespond(g)
    \/ EngineError(g)
    \/ EngineDeadline(g)
    \/ StoreClientError(g)
    \/ Return(g)
    \/ SetFastHTTPMaxConns(g)
    \/ SetApiKey(g)
    \/ SetAuthToken(g)
    \/ ChangeSchema(g)
    \/ From(g)

Spec == Init /\ [][Next]_vars

\* What the goroutine itself does once the engine has answered or given up;
\* whether the server answers is left to the environment.
Progress(g) == EngineDeadline(g) \/ StoreClientError(g) \/ Return(g)

FairSpec == Spec /\ \A g \in Callers : WF_vars(Progress(g))

TypeOK ==
  /\ pc \in [Callers -> {"idle", "wait", "fin", "ret", "panic"}]
  /\ panicked \in BOOLEAN
  /\ ClientError \in {"nil", "parse error", "marshal error", "request error",
                      "transport error", "timeout", "ping failed",
                      "read error", "close error"}
  /\ \A g \in Callers : pc[g] = "wait" <=> req[g] # NoRequest

\* ---------------------------------------------------------------- properties

\* Number of times value v occurs in the sequence vs.
Occ(vs, v) == Cardinality({i \in 1..Len(vs) : vs[i] = v})

\* Same values with the same multiplicities.
SameValues(vs, ws) ==
  /\ Len(vs) = Len(ws)
  /\ \A i \in 1..Len(vs) : Occ(vs, vs[i]) = Occ(ws, vs[i])

Requests == {"Ping", "Rpc"}
Setters == {"SetApiKey", "SetAuthToken", "ChangeSchema"}

\* C1: on a Client whose construction failed (Transport nil), Ping does not
\* panic and returns false.
C1_PingOnBrokenClient ==
  \A g \in Callers :
    (Transport.nil /\ call[g].op = "Ping") =>
      /\ pc[g] # "panic"
      /\ pc[g] = "ret" => out[g].result = "false"

\* C2: a Ping by the only user of a valid Client that began with ClientError
\* nil returns true exactly when the server answered with status 200, then
\* with ClientError still nil; otherwise it returns false with ClientError set.
C2_PingTrueIffStatus200 ==
  \A g \in Callers :
    (pc[g] = "ret" /\ call[g].op = "Ping" /\ active = {g} /\ ~call[g].errBefore) =>
      /\ out[g].result = "true" <=> out[g].code = 200
      /\ out[g].result = "true" => ClientError = "nil"
      /\ out[g].result # "true" => (out[g].result = "false" /\ ClientError # "nil")

\* C3: an Rpc that got a response with a non-2xx status has returned with
\* ClientError non-nil.
C3_RpcProtocolErrorRecorded ==
  \A g \in Callers :
    (pc[g] = "ret" /\ call[g].op = "Rpc" /\ out[g].code # 0
       /\ out[g].code \notin 200..299) =>
      ClientError # "nil"

\* C4: an Rpc in which a step failed (marshal, request construction,
\* transport, body read or close) has returned "" with ClientError non-nil,
\* and after a marshal failure no request was sent.
C4_RpcFailureSetsError ==
  \A g \in Callers :
    (pc[g] = "ret" /\ call[g].op = "Rpc" /\ out[g].failed # "none") =>
      /\ ClientError # "nil"
      /\ out[g].result = ""
      /\ out[g].failed = "marshal" => ~call[g].sent

C4_Witness ==
  \E g \in Callers :
    /\ pc[g] = "ret" /\ call[g].op = "Rpc" /\ out[g].failed = "read"
    /\ ~call[g].errBefore /\ active = {g}
    /\ ClientError = "read error" /\ out[g].result = ""

\* C5: a Ping that waits on the engine eventually returns, on either engine,
\* whether or not the server ever answers.
C5_PingReturns ==
  \A g \in Callers :
    (pc[g] = "wait" /\ call[g].op = "Ping") ~> (pc[g] = "ret")

\* C6: with goroutines sharing the Client for Ping and Rpc only, no store to
\* ClientError is pending together with another goroutine's store to it or
\* read of it, and a caller whose call began with ClientError nil finds it
\* non-nil after the call exactly when its own call failed.
C6_ConcurrentUseSafe ==
  /\ \A g \in Callers : \A h \in Callers \ {g} :
       ~ (/\ pc[g] = "fin" /\ out[g].err # "nil"
          /\ \/ pc[h] = "fin" /\ out[h].err # "nil"
             \/ pc[h] = "ret")
  /\ \A g \in Callers :
       (pc[g] = "ret" /\ call[g].op \in Requests /\ ~call[g].errBefore) =>
         (ClientError # "nil" <=> out[g].err # "nil")

\* The header value a setter gives for its argument.
Given(name, arg) ==
  IF name = "Authorization" THEN "Bearer " \o arg ELSE arg

\* C7: on a valid Client each of Apikey, Authorization, Accept-Profile and
\* Content-Profile never holds more than one value, and once a setter was
\* called for it holds exactly the value of the latest such call ("Bearer "
\* and the token for Authorization); a setter returns the Client.
C7_SettersReplace ==
  /\ ~Transport.nil =>
       \A n \in SetterHeaders :
         /\ Len(Transport.header[n]) <= 1
         /\ lastSet[n] # "unset" =>
              Transport.header[n] = <<Given(n, lastSet[n])>>
  /\ \A g \in Callers :
       (pc[g] = "ret" /\ call[g].op \in Setters) => out[g].result = "client"

C7_Witness ==
  /\ Transport.baseURL.host = "host"
  /\ \A n \in SetterHeaders : lastSet[n] # "unset"
  /\ Transport.header["Apikey"] = <<"K2">>
  /\ Transport.header["Authorization"] = <<"Bearer K1">>
  /\ Transport.header["Accept-Profile"] = <<"s2">>
  /\ \E g \in Callers : pc[g] = "ret" /\ call[g].op = "SetApiKey"

CountPreference == {"exact", "planned", "estimated"}

\* C8 as claimed: a dispatched Rpc request carries Prefer: count=<count> when
\* count is exact, planned or estimated, and no Prefer header at all otherwise.
C8_PreferFromCountOnly ==
  \A g \in Callers :
    (pc[g] = "wait" /\ call[g].op = "Rpc") =>
      IF call[g].count \in CountPreference
      THEN Occ(req[g].header["Prefer"], "count=" \o call[g].count) = 1
      ELSE req[g].header["Prefer"] = <<>>

\* C8 amended: a dispatched Rpc request carries the Prefer values of the
\* Client's header set and, exactly when count is exact, planned or
\* estimated, count=<count> once besides them; so with no Prefer among the
\* Client's headers and any other count it carries no Prefer header.
C8_PreferFromCountAndDefaults ==
  \A g \in Callers :
    (pc[g] = "wait" /\ call[g].op = "Rpc") =>
      LET d == Transport.header["Prefer"]
          p == req[g].header["Prefer"]
      IN IF call[g].count \in CountPreference
         THEN /\ SameValues(p, Append(d, "count=" \o call[g].count))
              /\ Occ(p, "count=" \o call[g].count) = 1
         ELSE p = d

C8_Witness ==
  \E g \in Callers :
    /\ pc[g] = "wait" /\ call[g].op = "Rpc" /\ call[g].count = "bogus"
    /\ Transport.header["Prefer"] = <<"return=representation">>
    /\ req[g].header["Prefer"] = <<"return=representation">>

\* Same method, same URL, same header values.
SameRequest(a, b) ==
  /\ a.method = b.method
  /\ a.url = b.url
  /\ \A n \in HeaderNames : SameValues(a.header[n], b.header[n])

\* Every value of the header set t is on request r exactly as often as in t,
\* and r has nothing else but the count preference.
DefaultsOnce(t, r, count) ==
  \A n \in HeaderNames :
    /\ \A i \in 1..Len(t.header[n]) :
         Occ(r.header[n], t.header[n][i]) = Occ(t.header[n], t.header[n][i])
    /\ Len(r.header[n]) =
         Len(t.header[n]) + (IF n = "Prefer" /\ count \in CountPreference THEN 1 ELSE 0)

\* C9: for the header set and base URL of any valid Client and any Ping or
\* Rpc arguments, the request net/http sends through RoundTrip and the one
\* built for fasthttp have the same method, URL and header values, each value
\* of the Client's header set being there exactly once; and a request that is
\* out is the one of its engine.
C9_EnginesAgree ==
  ~Transport.nil =>
    /\ SameRequest(PingRequestStd(Transport), PingRequestFast(Transport))
    /\ DefaultsOnce(Transport, PingRequestStd(Transport), "")
    /\ DefaultsOnce(Transport, PingRequestFast(Transport), "")
    /\ PingRequestStd(Transport).url.path.abs \/ Transport.baseURL.path = EmptyPath
    /\ \A name \in RpcNames, count \in Counts :
         LET b == Marshal("ok").bytes
             std == RpcRequestStd(Transport, name, count, b)
             fast == RpcRequestFast(Transport, name, count, b)
         IN /\ SameRequest(std, fast)
            /\ DefaultsOnce(Transport, std, count)
            /\ DefaultsOnce(Transport, fast, count)
            /\ std.method = "POST"
            /\ std.url.scheme = Transport.baseURL.scheme
            /\ std.url.host = Transport.baseURL.host
            /\ std.url.path = [abs |-> TRUE,
                               segs |-> Transport.baseURL.path.segs \o <<"rpc", name>>,
                               dir |-> FALSE]
    /\ \A g \in Callers :
         pc[g] = "wait" =>
           \E name \in RpcNames, rpcBody \in {"nil", "ok"} :
             LET b == Marshal(rpcBody).bytes
                 other == IF call[g].op = "Ping"
                          THEN IF useFastHTTP THEN PingRequestStd(Transport)
                               ELSE PingRequestFast(Transport)
                          ELSE IF useFastHTTP
                               THEN RpcRequestStd(Transport, name, call[g].count, b)
                               ELSE RpcRequestFast(Transport, name, call[g].count, b)
             IN SameRequest(req[g], other)

C9_Witness ==
  \E g \in Callers :
    /\ pc[g] = "wait" /\ call[g].op = "Rpc" /\ call[g].count = "exact"
    /\ ~useFastHTTP
    /\ Transport.header["Prefer"] # <<>>
    /\ Transport.header["Authorization"] # <<>>
    /\ req[g].url = [scheme |-> "http", host |-> "host",
                     path |-> [abs |-> TRUE, segs |-> <<"v1", "rpc", "add_them">>,
                               dir |-> FALSE]]
    /\ SameRequest(req[g], RpcRequestFast(Transport, "add_them", "exact", req[g].body))

\* C10: no step of any operation takes ClientError from non-nil to nil.
C10_ErrorSticks ==
  [][ClientError # "nil" => ClientError' # "nil"]_vars

\* A Ping that succeeded while ClientError was, and stays, set.
C10_Witness ==
  \E g \in Callers :
    /\ pc[g] = "ret" /\ call[g].op = "Ping" /\ call[g].errBefore
    /\ out[g].result = "true" /\ out[g].err = "nil"
    /\ ClientError # "nil"

====
